---- MODULE Spec2Model ----
(***************************************************************************)
(* Model of superjob_auth.py: the SuperjobAPI client.                      *)
(*   - cookie authentication (explicit cookies, cookie file, browser       *)
(*     adapters with a cookie cache file),                                 *)
(*   - apply_to_vacancy / _extract_chat_id / send_message,                 *)
(*   - the auto_apply search-and-apply driver.                             *)
(* Python's None is the string None; a dict is a function whose DOMAIN is  *)
(* its key set; the remote server and the local files are the environment  *)
(* and answer nondeterministically.                                        *)
(***************************************************************************)
EXTENDS Integers, Sequences, FiniteSets, TLC

VARIABLES
    \* ---- authentication ----
    cache,            \* contents of COOKIES_CACHE_FILE
    jar,              \* self.session.cookies
    authPc,           \* position inside the running authentication call
    call,             \* the running call: [op, browser, force]
    cached,           \* local `cached` of _auth_with_cached_cookies
    browsers_to_try,  \* adapters still to try (loop of auth_from_browser)
    cookies,          \* local `cookies` of the adapter loop / cookie file
    last_error,       \* local `last_error` of auth_from_browser
    ret,              \* what the call returned or raised
    log,              \* I/O issued by the running call, in order
    calls,            \* top-level calls started so far
    \* ---- _extract_chat_id ----
    response,         \* the parsed response handed to _extract_chat_id
    extracted,        \* what the call did: [done, raised, value]
    \* ---- apply_to_vacancy / send_message ----
    cover_letter_cfg, \* self.config.cover_letter
    applyPc,          \* position inside the running apply_to_vacancy call
    cover_letter,     \* argument `cover_letter` of the running call
    http,             \* the answer to the apply POST
    result,           \* local `result` of apply_to_vacancy
    msg_http,         \* the answer to the chatMessage POST of send_message
    reqs,             \* requests issued by the running call, in order
    \* ---- auto_apply ----
    config,           \* self.config: search_keywords, search_limit, max_pages, resume_id
    catalog,          \* the vacancy ids the site can return
    autoPc,           \* position inside the running auto_apply call
    auto_args,        \* keywords and resume_id as passed by the caller
    keywords,         \* local `keywords` after line 595
    limit,            \* local `limit` after line 596
    max_pages,        \* local `max_pages` after line 597
    resume_id,        \* local `resume_id` after line 598
    kw_i,             \* index of `kw` in keywords
    page,             \* local `page`
    all_vacancies,    \* local `all_vacancies` (vacancy ids)
    v_i,              \* index of `v` in all_vacancies
    applied_ids,      \* local `applied_ids`
    stats,            \* local `stats`
    auto_ret,         \* what auto_apply returned
    search_log,       \* search requests of the run: [kw, offset, ids, stop]
    apply_log,        \* apply_to_vacancy calls of the run: [id, ok, message]
    skip_log          \* vacancy ids for which `skipped` was incremented

authVars == <<cache, jar, authPc, call, cached, browsers_to_try, cookies,
              last_error, ret, log>>
extractVars == <<response, extracted>>
applyVars == <<cover_letter_cfg, applyPc, cover_letter, http, result, msg_http, reqs>>

autoVars == <<config, catalog, autoPc, auto_args, keywords, limit, max_pages,
              resume_id, kw_i, page, all_vacancies, v_i, applied_ids, stats,
              auto_ret, search_log, apply_log, skip_log>>

vars == <<authVars, calls, extractVars, applyVars, autoVars>>

\* ------------------------------------------------------------------ bounds
MaxCalls == 2
MaxLines == 3
MaxIncluded == 2
MaxPages == 2
MaxTotal == 3

\* ------------------------------------------------------------------ values
None == "None"
Required == {"uat", "sat", "sask"}
Names == Required \cup {"geo"}
Values == {"a"}
EmptyMap == [k \in {} |-> None]

\* every dict of cookie name -> value a cookie source can hold
CookieMaps == UNION {[S -> Values] : S \in SUBSET Names}

Get(m, k, default) == IF k \in DOMAIN m THEN m[k] ELSE default

Event(ev, arg) == [ev |-> ev, arg |-> arg]

HasEvent(l, ev) == \E i \in 1..Len(l) : l[i].ev = ev

\* ------------------------------------------------------------- check_auth
LoginLocations == {"/auth/login/"}
ProbeResponses ==
    {[kind |-> "exception", status |-> 0, location |-> ""]} \cup
    {[kind |-> "response", status |-> 200, location |-> ""],
     [kind |-> "response", status |-> 302, location |-> "/auth/login/"],
     [kind |-> "response", status |-> 302, location |-> "/other/"],
     [kind |-> "response", status |-> 500, location |-> ""]}

check_auth(resp) ==
    IF resp.kind = "exception" THEN FALSE
    ELSE IF resp.status = 302 /\ resp.location \in LoginLocations THEN FALSE
    ELSE resp.status = 200

ProbeEvent(ok) == Event("probe", IF ok THEN "ok" ELSE "fail")

\* ------------------------------------------------------ auth_with_cookies
\* the dict built at lines 91-100
CookieDict(uat, sat, sask, geo, geo_confirmed, geo_set, login_auth_type) ==
    [k \in {"uat", "sat", "sask", "geo", "geoConfirmed", "geoSet",
            "loginAuthType", "initialGeoConfirmationShow"} |->
        CASE k = "uat" -> uat
          [] k = "sat" -> sat
          [] k = "sask" -> sask
          [] k = "geo" -> geo
          [] k = "geoConfirmed" -> geo_confirmed
          [] k = "geoSet" -> geo_set
          [] k = "loginAuthType" -> login_auth_type
          [] OTHER -> "1"]

\* session.cookies.set for every item: a None value removes the cookie
SetCookies(j, c) ==
    LET removed == {k \in DOMAIN c : c[k] = None}
    IN [k \in (DOMAIN j \cup DOMAIN c) \ removed |->
            IF k \in DOMAIN c THEN c[k] ELSE j[k]]

\* the keyword call made with a source dict m (lines 135-143, 205-213, 250-258)
CookiesFrom(m) ==
    CookieDict(Get(m, "uat", None), Get(m, "sat", None), Get(m, "sask", None),
               Get(m, "geo", "1687"), Get(m, "geoConfirmed", "1"),
               Get(m, "geoSet", "1"), Get(m, "loginAuthType", "applicant"))

Missing(m) == {k \in Required : k \notin DOMAIN m}

Idle == authPc = "idle" /\ calls < MaxCalls

\* last_error of auth_from_browser: None (line 189), or the message built for
\* adapter br: "missing" (line 202), "invalid" (line 221), "raised" (line 225)
NoError == [br |-> None, kind |-> None]
ErrorOf(br, kind) == [br |-> br, kind |-> kind]

Fresh(op, browser, force) ==
    /\ call' = [op |-> op, browser |-> browser, force |-> force]
    /\ calls' = calls + 1
    /\ cached' = [none |-> TRUE, data |-> EmptyMap]
    /\ browsers_to_try' = <<>>
    /\ last_error' = NoError

\* auth_with_cookies called directly with literal values (None: no value)
AuthWithCookies(uat, sat, sask, resp) ==
    /\ Idle
    /\ Fresh("auth_with_cookies", "", FALSE)
    /\ cookies' = CookieDict(uat, sat, sask, "1687", "1", "1", "applicant")
    /\ jar' = SetCookies(jar, cookies')
    /\ log' = <<ProbeEvent(check_auth(resp))>>
    /\ ret' = IF check_auth(resp) THEN "True" ELSE "False"
    /\ authPc' = "done"
    /\ UNCHANGED cache

\* ---------------------------------------------------------- auth_from_file
FileLine ==
    {[kind |-> "blank", name |-> "", value |-> ""],
     [kind |-> "noeq", name |-> "", value |-> ""]} \cup
    {[kind |-> "pair", name |-> n, value |-> v] : n \in Names, v \in Values}

RECURSIVE ParseCookieFile(_)
ParseCookieFile(lines) ==
    IF lines = <<>> THEN EmptyMap
    ELSE LET n == Len(lines)
             before == ParseCookieFile(SubSeq(lines, 1, n - 1))
             line == lines[n]
         IN IF line.kind = "pair"
            THEN [k \in DOMAIN before \cup {line.name} |->
                     IF k = line.name THEN line.value ELSE before[k]]
            ELSE before

CookieFiles == UNION {[1..n -> FileLine] : n \in 0..MaxLines}

AuthFromFileMissing ==
    /\ Idle
    /\ Fresh("auth_from_file", "", FALSE)
    /\ cookies' = EmptyMap
    /\ log' = <<>>
    /\ ret' = "FileNotFoundError"
    /\ authPc' = "done"
    /\ UNCHANGED <<cache, jar>>

AuthFromFile(lines) ==
    /\ Idle
    /\ Fresh("auth_from_file", "", FALSE)
    /\ cookies' = ParseCookieFile(lines)
    /\ IF Missing(cookies') # {}
       THEN /\ ret' = "ValueError"
            /\ log' = <<>>
            /\ UNCHANGED jar
       ELSE \E resp \in ProbeResponses :
            /\ jar' = SetCookies(jar, CookiesFrom(cookies'))
            /\ log' = <<ProbeEvent(check_auth(resp))>>
            /\ ret' = IF check_auth(resp) THEN "True" ELSE "False"
    /\ authPc' = "done"
    /\ UNCHANGED cache

\* ------------------------------------------------------ _load_cached_cookies
CacheFiles ==
    {[state |-> "absent", data |-> EmptyMap],
     [state |-> "corrupt", data |-> EmptyMap]} \cup
    {[state |-> "ok", data |-> m] : m \in CookieMaps}

_load_cached_cookies(file) ==
    IF file.state = "ok" THEN [none |-> FALSE, data |-> file.data]
    ELSE [none |-> TRUE, data |-> EmptyMap]

\* `if not cached`: None or the empty dict
Falsy(c) == c.none \/ c.data = EmptyMap

\* --------------------------------------------------------- auth_from_browser
Browsers == {"auto", "chrome", "opera"}
browser_funcs == {"chrome", "firefox", "edge", "safari"}

\* faulty variant: the cache path is never taken
AuthFromBrowserSkipsCache(browser, force_refresh) ==
    /\ Idle
    /\ Fresh("auth_from_browser", browser, force_refresh)
    /\ cookies' = EmptyMap
    /\ log' = <<>>
    /\ ret' = None
    /\ authPc' = "import"
    /\ UNCHANGED <<cache, jar>>

AuthFromBrowser(browser, force_refresh) ==
    /\ Idle
    /\ Fresh("auth_from_browser", browser, force_refresh)
    /\ cookies' = EmptyMap
    /\ log' = <<>>
    /\ ret' = None
    /\ authPc' = IF force_refresh THEN "import" ELSE "cache"
    /\ UNCHANGED <<cache, jar>>

\* faulty variant: chrome is tried before firefox
AutoOrderChromeFirst == <<"chrome", "firefox", "edge", "safari">>

\* line 183
AutoOrder == <<"firefox", "chrome", "edge", "safari">>

\* lines 161-166 with _auth_with_cached_cookies (125-144)
AuthWithCachedCookies ==
    /\ authPc = "cache"
    /\ cached' = _load_cached_cookies(cache)
    /\ IF Falsy(cached') \/ Missing(cached'.data) # {}
       THEN /\ log' = Append(log, Event("cache_read", ""))
            /\ authPc' = "import"
            /\ UNCHANGED <<jar, ret>>
       ELSE \E resp \in ProbeResponses :
            /\ jar' = SetCookies(jar, CookiesFrom(cached'.data))
            /\ log' = log \o <<Event("cache_read", ""), ProbeEvent(check_auth(resp))>>
            /\ IF check_auth(resp)
               THEN authPc' = "done" /\ ret' = "True"
               ELSE authPc' = "import" /\ UNCHANGED ret
    /\ UNCHANGED <<cache, call, browsers_to_try, cookies, last_error, calls>>

\* lines 169-189
ImportAndSelect(installed) ==
    /\ authPc = "import"
    /\ IF ~installed
       THEN authPc' = "done" /\ ret' = "ImportError" /\ UNCHANGED browsers_to_try
       ELSE IF call.browser = "auto"
       THEN /\ browsers_to_try' = AutoOrder
            /\ authPc' = "adapters"
            /\ UNCHANGED ret
       ELSE IF call.browser \notin browser_funcs
       THEN authPc' = "done" /\ ret' = "ValueError" /\ UNCHANGED browsers_to_try
       ELSE /\ browsers_to_try' = <<call.browser>>
            /\ authPc' = "adapters"
            /\ UNCHANGED ret
    /\ UNCHANGED <<cache, jar, call, cached, cookies, last_error, log, calls>>

\* _save_cookies_to_cache: open(..., "w") may fail, which is swallowed
\* faulty variant: the new cookies are merged into the cached ones
_save_merging(file, m, opened) ==
    IF opened
    THEN [state |-> "ok",
          data |-> [k \in DOMAIN file.data \cup DOMAIN m |->
                       IF k \in DOMAIN m THEN m[k] ELSE file.data[k]]]
    ELSE file

_save_cookies_to_cache(file, m, opened) ==
    IF opened THEN [state |-> "ok", data |-> m] ELSE file

\* the cookie store of one browser: extraction raises, or yields a dict
AdapterOutcomes ==
    {[raised |-> TRUE, data |-> EmptyMap]} \cup
    {[raised |-> FALSE, data |-> m] : m \in CookieMaps}

\* one iteration of the loop at lines 190-226; `cookies` is rebuilt at the top
\* of every iteration, so it is kept only where the loop is left (line 218)
TryBrowser(out) ==
    /\ authPc = "adapters"
    /\ browsers_to_try # <<>>
    /\ LET br == Head(browsers_to_try)
       IN /\ browsers_to_try' = Tail(browsers_to_try)
          /\ IF out.raised
             THEN /\ last_error' = ErrorOf(br, "raised")
                  /\ log' = Append(log, Event("adapter", br))
                  /\ UNCHANGED <<cookies, jar, cache, ret, authPc>>
             ELSE IF Missing(out.data) # {}
             THEN /\ last_error' = ErrorOf(br, "missing")
                  /\ log' = Append(log, Event("adapter", br))
                  /\ UNCHANGED <<cookies, jar, cache, ret, authPc>>
             ELSE \E resp \in ProbeResponses, opened \in BOOLEAN :
                  /\ jar' = SetCookies(jar, CookiesFrom(out.data))
                  /\ IF check_auth(resp)
                     THEN /\ cookies' = out.data
                          /\ cache' = _save_cookies_to_cache(cache, out.data, opened)
                          /\ log' = log \o <<Event("adapter", br), ProbeEvent(TRUE)>>
                                      \o (IF opened THEN <<Event("cache_write", br)>> ELSE <<>>)
                          /\ ret' = "True"
                          /\ authPc' = "done"
                          /\ UNCHANGED last_error
                     ELSE /\ last_error' = ErrorOf(br, "invalid")
                          /\ log' = log \o <<Event("adapter", br), ProbeEvent(FALSE)>>
                          /\ UNCHANGED <<cookies, cache, ret, authPc>>
    /\ UNCHANGED <<call, cached, calls>>

\* lines 228-230: the last recorded error is reported, the call returns False
AllBrowsersFailed ==
    /\ authPc = "adapters"
    /\ browsers_to_try = <<>>
    /\ log' = IF last_error # NoError
              THEN Append(log, Event("report", last_error.br)) ELSE log
    /\ ret' = "False"
    /\ authPc' = "done"
    /\ UNCHANGED <<cache, jar, call, cached, browsers_to_try, cookies, last_error, calls>>

\* the call has returned: its locals are gone, the client takes the next call
Return ==
    /\ authPc = "done"
    /\ authPc' = "idle"
    /\ call' = [op |-> "", browser |-> "", force |-> FALSE]
    /\ cached' = [none |-> TRUE, data |-> EmptyMap]
    /\ browsers_to_try' = <<>>
    /\ cookies' = EmptyMap
    /\ last_error' = NoError
    /\ ret' = None
    /\ log' = <<>>
    /\ UNCHANGED <<cache, jar, calls>>

AuthIdle ==
    /\ jar = EmptyMap
    /\ authPc = "idle"
    /\ call = [op |-> "", browser |-> "", force |-> FALSE]
    /\ cached = [none |-> TRUE, data |-> EmptyMap]
    /\ browsers_to_try = <<>>
    /\ cookies = EmptyMap
    /\ last_error = NoError
    /\ ret = None
    /\ log = <<>>

AuthStep ==
    \/ \E uat \in Values \cup {None}, sat \in Values \cup {None},
          sask \in Values \cup {None}, resp \in ProbeResponses :
            AuthWithCookies(uat, sat, sask, resp)
    \/ AuthFromFileMissing
    \/ \E lines \in CookieFiles : AuthFromFile(lines)
    \/ \E browser \in Browsers, force_refresh \in BOOLEAN :
            AuthFromBrowser(browser, force_refresh)
    \/ AuthWithCachedCookies
    \/ \E installed \in BOOLEAN : ImportAndSelect(installed)
    \/ \E out \in AdapterOutcomes : TryBrowser(out)
    \/ AllBrowsersFailed
    \/ Return

\* ----------------------------------------------------------- _extract_chat_id
\* One element of "included". obj = FALSE: not a JSON object (a string, a
\* number, null). chat is the path relationships.chat.data.id of the element:
\* "absent" when a key of the path is missing, "null" when a link of the path
\* is null, otherwise the id found.
Junk == [obj |-> FALSE, type |-> None, id |-> None, chat |-> "absent"]
Items ==
    {Junk, [obj |-> TRUE, type |-> "vacancy", id |-> "V1", chat |-> "absent"]} \cup
    {[obj |-> TRUE, type |-> "chat", id |-> i, chat |-> "absent"] :
        i \in {None, "", "C1"}} \cup
    {[obj |-> TRUE, type |-> "vacancyResponse", id |-> i, chat |-> c] :
        i \in {None, "", "VR1", "VR2"}, c \in {"absent", "null", "C2"}}

\* A parsed response. dict = FALSE: the JSON value is not an object. included:
\* "absent", "null" or "list" (then items). vr is the path
\* data.relationships.vacancyResponse.data.id, read like chat above.
NotADict == [dict |-> FALSE, included |-> "absent", items |-> <<>>, vr |-> "absent"]
ResponsesUpTo(n) ==
    {NotADict} \cup
    {[dict |-> TRUE, included |-> k, items |-> <<>>, vr |-> v] :
        k \in {"absent", "null"}, v \in {"absent", "null", "", "VR1"}} \cup
    {[dict |-> TRUE, included |-> "list", items |-> its, vr |-> v] :
        its \in UNION {[1..m -> Items] : m \in 0..n},
        v \in {"absent", "null", "", "VR1"}}
Responses == ResponsesUpTo(MaxIncluded)

\* Python truthiness of an optional string
Truthy(x) == x \notin {None, ""}

Raised == [raised |-> TRUE, value |-> None]
Returned(v) == [raised |-> FALSE, value |-> v]

\* lines 419-421
RECURSIVE ScanChat(_, _)
ScanChat(included, i) ==
    IF i > Len(included) THEN [hit |-> FALSE, out |-> Returned(None)]
    ELSE IF ~included[i].obj THEN [hit |-> TRUE, out |-> Raised]
    ELSE IF included[i].type = "chat"
         THEN [hit |-> TRUE, out |-> Returned(included[i].id)]
    ELSE ScanChat(included, i + 1)

\* lines 428-431
RECURSIVE ScanVacancyResponse(_, _, _)
ScanVacancyResponse(included, i, vr_id) ==
    IF i > Len(included) THEN Returned(None)
    ELSE IF ~included[i].obj THEN Raised
    ELSE IF included[i].type = "vacancyResponse" /\ included[i].id = vr_id
         THEN IF included[i].chat = "null" THEN Raised
              ELSE Returned(IF included[i].chat = "absent" THEN None
                            ELSE included[i].chat)
    ELSE ScanVacancyResponse(included, i + 1, vr_id)

\* the body of the try block, lines 418-431
ExtractBody(r) ==
    IF ~r.dict \/ r.included = "null" THEN Raised
    ELSE LET included == r.items
             first == ScanChat(included, 1)
         IN IF first.hit THEN first.out
            ELSE IF r.vr = "null" THEN Raised
            ELSE LET vr_id == IF r.vr = "absent" THEN None ELSE r.vr
                 IN IF Truthy(vr_id)
                    THEN ScanVacancyResponse(included, 1, vr_id)
                    ELSE Returned(None)

\* faulty variant: the same without the try/except
ExtractUnguarded(r) == ExtractBody(r)

\* lines 415-434: except Exception: pass; return None
_extract_chat_id(r) ==
    IF ExtractBody(r).raised THEN Returned(None) ELSE ExtractBody(r)

ExtractIdle ==
    /\ response = NotADict
    /\ extracted = [done |-> FALSE, raised |-> FALSE, value |-> None]

ExtractChatId ==
    /\ ~extracted.done
    /\ extracted' = [done |-> TRUE,
                     raised |-> _extract_chat_id(response).raised,
                     value |-> _extract_chat_id(response).value]
    /\ UNCHANGED response

\* --------------------------------------------------------------- send_message
PostStatus == {200, 201, 403}
NoBody == NotADict
\* text: "empty" (no body), "invalid" (resp.json() raises), "falsy" (a JSON
\* value Python treats as false: {}, [], null), "json" (then body)
SendResponses ==
    {[kind |-> "exception", status |-> 0, text |-> "empty"]} \cup
    {[kind |-> "response", status |-> st, text |-> t] :
        st \in PostStatus, t \in {"empty", "invalid", "json"}}

NoAnswer == [kind |-> "exception", status |-> 0, text |-> "empty"]

\* lines 477-489
send_message(resp) ==
    IF resp.kind = "exception" \/ resp.text = "invalid"
    THEN [success |-> FALSE, error |-> TRUE]
    ELSE [success |-> resp.status \in {200, 201}, error |-> FALSE]

\* ----------------------------------------------------------- apply_to_vacancy
BASE_URL == "https://www.superjob.ru"
ApplyBodies == ResponsesUpTo(1)
ApplyResponses ==
    {[kind |-> "exception", status |-> 0, text |-> "empty", body |-> NoBody]} \cup
    {[kind |-> "response", status |-> st, text |-> t, body |-> NoBody] :
        st \in PostStatus, t \in {"empty", "invalid", "falsy"}} \cup
    {[kind |-> "response", status |-> st, text |-> "json", body |-> b] :
        st \in PostStatus, b \in ApplyBodies}

CoverLetters == {None, "", "default", "Hi"}
ConfigLetters == {"", "Cfg"}

ErrorResult ==
    [success |-> FALSE, status_code |-> 0, chat_id |-> None, chat_url |-> <<>>,
     cover_letter_sent |-> "unset", error |-> TRUE]

\* faulty variant: only status 200 counts as success, no chat id is read
PostResultOnly200(resp) ==
    IF resp.kind = "exception" \/ resp.text = "invalid" THEN ErrorResult
    ELSE [success |-> resp.status = 200, status_code |-> resp.status,
          chat_id |-> None, chat_url |-> <<>>,
          cover_letter_sent |-> "unset", error |-> FALSE]

\* lines 390-403: result before the cover letter is sent
PostResult(resp) ==
    IF resp.kind = "exception" \/ resp.text = "invalid" THEN ErrorResult
    ELSE LET success == resp.status \in {200, 201}
             chat_id == IF success /\ resp.text = "json"
                        THEN _extract_chat_id(resp.body).value ELSE None
         IN [success |-> success, status_code |-> resp.status,
             chat_id |-> chat_id,
             chat_url |-> IF Truthy(chat_id)
                          THEN <<BASE_URL, "/chat/?chatId=", chat_id>> ELSE <<>>,
             cover_letter_sent |-> "unset", error |-> FALSE]

\* line 406
SendsLetter(res, letter_arg) == Truthy(res.chat_id) /\ Truthy(letter_arg)

\* faulty variant: the text passed by the caller is ignored
LetterFromConfig(letter_arg, cfg) == cfg

\* line 407
Letter(letter_arg, cfg) == IF letter_arg = "default" THEN cfg ELSE letter_arg

ApplyRequest == [req |-> "apply", chat_id |-> None, message |-> None]
MessageRequest(chat_id, message) ==
    [req |-> "message", chat_id |-> chat_id, message |-> message]

\* lines 384-403: the POST and the reading of its answer
ApplyPost(letter_arg, resp) ==
    /\ applyPc = "idle" /\ calls < MaxCalls
    /\ calls' = calls + 1
    /\ cover_letter' = letter_arg
    /\ http' = resp
    /\ result' = PostResult(resp)
    /\ reqs' = <<ApplyRequest>>
    /\ applyPc' = IF ~result'.error /\ SendsLetter(result', letter_arg)
                  THEN "send" ELSE "done"
    /\ UNCHANGED <<cover_letter_cfg, msg_http>>

\* lines 406-409
ApplySend(resp) ==
    /\ applyPc = "send"
    /\ reqs' = Append(reqs, MessageRequest(result.chat_id,
                                           Letter(cover_letter, cover_letter_cfg)))
    /\ msg_http' = resp
    /\ result' = [result EXCEPT !.cover_letter_sent =
                     IF send_message(resp).success THEN "True" ELSE "False"]
    /\ applyPc' = "done"
    /\ UNCHANGED <<cover_letter_cfg, cover_letter, http, calls>>

\* line 411 / 413
ApplyReturn ==
    /\ applyPc = "done"
    /\ applyPc' = "idle"
    /\ cover_letter' = None
    /\ http' = [kind |-> "exception", status |-> 0, text |-> "empty", body |-> NoBody]
    /\ result' = ErrorResult
    /\ msg_http' = NoAnswer
    /\ reqs' = <<>>
    /\ UNCHANGED <<cover_letter_cfg, calls>>

\* the caller edits api.config.cover_letter between calls
SetCoverLetter(text) ==
    /\ applyPc = "idle"
    /\ cover_letter_cfg # text
    /\ cover_letter_cfg' = text
    /\ UNCHANGED <<applyPc, cover_letter, http, result, msg_http, reqs, calls>>

ApplyIdle ==
    /\ applyPc = "idle"
    /\ cover_letter = None
    /\ http = [kind |-> "exception", status |-> 0, text |-> "empty", body |-> NoBody]
    /\ result = ErrorResult
    /\ msg_http = NoAnswer
    /\ reqs = <<>>

ApplyStep ==
    \/ \E letter_arg \in CoverLetters, resp \in ApplyResponses :
            ApplyPost(letter_arg, resp)
    \/ \E resp \in SendResponses : ApplySend(resp)
    \/ ApplyReturn
    \/ \E text \in ConfigLetters : SetCoverLetter(text)

\* ------------------------------------------------------------ search_vacancies
VacancyIds == {"V1", "V2", "V3"}
\* the site answers page[limit] = n with at most n vacancies of its catalog
PagesOf(ids, n) == UNION {[1..m -> ids] : m \in 0..n}
SearchResponses(ids, n) ==
    {[kind |-> "exception", status |-> 0, total |-> 0, ids |-> <<>>],
     [kind |-> "response", status |-> 500, total |-> 0, ids |-> <<>>]} \cup
    {[kind |-> "response", status |-> 200, total |-> t, ids |-> pg] :
        t \in 0..MaxTotal, pg \in PagesOf(ids, n)}

\* lines 537-574
search_vacancies(resp) ==
    IF resp.kind = "response" /\ resp.status = 200
    THEN [total |-> resp.total, vacancies |-> resp.ids]
    ELSE [total |-> 0, vacancies |-> <<>>]

\* ------------------------------------------------------------------ auto_apply
\* `a or b`: b when a is None or empty (a list, a string) or zero (an integer)
OrList(a, b) == IF a = <<>> THEN b ELSE a
OrStr(a, b) == IF a = "" THEN b ELSE a
OrInt(a, b) == IF a = 0 THEN b ELSE a

EmptyStats ==
    [total_found |-> 0, applied |-> 0, failed |-> 0, skipped |-> 0, results |-> <<>>]

\* the answers apply_to_vacancy can get inside a run
AutoApplyResponses ==
    {[kind |-> "exception", status |-> 0, text |-> "empty", body |-> NoBody],
     [kind |-> "response", status |-> 403, text |-> "empty", body |-> NoBody],
     [kind |-> "response", status |-> 201, text |-> "json",
      body |-> [dict |-> TRUE, included |-> "list",
                items |-> <<[obj |-> TRUE, type |-> "chat", id |-> "C1",
                             chat |-> "absent"]>>,
                vr |-> "VR1"]]}
AutoSendResponses == {[kind |-> "response", status |-> 201, text |-> "json"]}

\* apply_to_vacancy as auto_apply calls it (line 647): the whole call
apply_to_vacancy(letter_arg, cfg_letter, resp, sresp) ==
    LET res == PostResult(resp)
    IN IF ~res.error /\ SendsLetter(res, letter_arg)
       THEN [res EXCEPT !.cover_letter_sent =
                IF send_message(sresp).success THEN "True" ELSE "False"]
       ELSE res

\* faulty variant: every record is flagged as a success
EntryAlwaysSuccess(vid, res) ==
    [vacancy_id |-> vid, success |-> TRUE, chat_url |-> res.chat_url,
     cover_letter_sent |-> res.cover_letter_sent, error |-> "unset"]

\* lines 649-656, 666
Entry(vid, res) ==
    [vacancy_id |-> vid, success |-> res.success, chat_url |-> res.chat_url,
     cover_letter_sent |-> res.cover_letter_sent,
     error |-> IF res.success THEN "unset"
               ELSE IF res.error THEN "error" ELSE "status"]

\* faulty variant: > for >=
ReachedEndStrict(offset, lim, total) == offset + lim > total

\* line 634: the page ends the iteration of the keyword
ReachedEnd(offset, lim, total) == offset + lim >= total

\* faulty variant: no de-duplication
NeverApplied(vid, ids) == FALSE

\* line 642
AlreadyApplied(vid, ids) == vid \in ids

\* faulty variant: the id is not remembered
AddAppliedNothing(ids, vid) == ids

\* line 645, before the call of line 647 and whatever that call returns
AddApplied(ids, vid) == ids \cup {vid}

AutoLocalsIdle ==
    /\ keywords = <<>>
    /\ limit = 0
    /\ max_pages = 0
    /\ resume_id = ""
    /\ kw_i = 0
    /\ page = 0
    /\ all_vacancies = <<>>
    /\ v_i = 0
    /\ applied_ids = {}
    /\ stats = EmptyStats
    /\ auto_ret = None
    /\ search_log = <<>>
    /\ apply_log = <<>>
    /\ skip_log = <<>>

AutoIdle ==
    /\ autoPc = "idle"
    /\ auto_args = [keywords |-> <<>>, resume_id |-> ""]
    /\ AutoLocalsIdle

\* faulty variant: lines 600-603 left out
AutoApplyUnchecked(kw_arg, limit_arg, pages_arg, resume_arg) ==
    /\ autoPc = "idle"
    /\ auto_args' = [keywords |-> kw_arg, resume_id |-> resume_arg]
    /\ keywords' = OrList(kw_arg, config.search_keywords)
    /\ limit' = OrInt(limit_arg, config.search_limit)
    /\ max_pages' = OrInt(pages_arg, config.max_pages)
    /\ resume_id' = OrStr(resume_arg, config.resume_id)
    /\ autoPc' = "search"
    /\ auto_ret' = None
    /\ kw_i' = 1
    /\ page' = 0
    /\ all_vacancies' = <<>>
    /\ v_i' = 0
    /\ applied_ids' = {}
    /\ stats' = EmptyStats
    /\ search_log' = <<>>
    /\ apply_log' = <<>>
    /\ skip_log' = <<>>
    /\ UNCHANGED <<config, catalog>>

\* lines 595-613
AutoApply(kw_arg, limit_arg, pages_arg, resume_arg) ==
    /\ autoPc = "idle"
    /\ auto_args' = [keywords |-> kw_arg, resume_id |-> resume_arg]
    /\ keywords' = OrList(kw_arg, config.search_keywords)
    /\ limit' = OrInt(limit_arg, config.search_limit)
    /\ max_pages' = OrInt(pages_arg, config.max_pages)
    /\ resume_id' = OrStr(resume_arg, config.resume_id)
    /\ IF keywords' = <<>> \/ resume_id' = ""
       THEN /\ autoPc' = "done"
            /\ auto_ret' = "error"
            /\ kw_i' = 0
       ELSE /\ autoPc' = "search"
            /\ auto_ret' = None
            /\ kw_i' = 1
    /\ page' = 0
    /\ all_vacancies' = <<>>
    /\ v_i' = 0
    /\ applied_ids' = {}
    /\ stats' = EmptyStats
    /\ search_log' = <<>>
    /\ apply_log' = <<>>
    /\ skip_log' = <<>>
    /\ UNCHANGED <<config, catalog>>

\* one iteration of the loop at lines 620-635, and line 637 when it is the last
SearchPage(resp) ==
    /\ autoPc = "search"
    /\ page < max_pages
    /\ LET offset == page * limit
           search_result == search_vacancies(resp)
           vacancies == search_result.vacancies
           total == search_result.total
           stop == vacancies = <<>> \/ offset + limit >= total
           break == vacancies = <<>> \/ ReachedEnd(offset, limit, total)
           last == break \/ page + 1 >= max_pages
       IN /\ search_log' = Append(search_log,
                [kw |-> kw_i, offset |-> offset, ids |-> vacancies, stop |-> stop])
          /\ all_vacancies' = all_vacancies \o vacancies
          /\ page' = IF break THEN page ELSE page + 1
          /\ IF last
             THEN /\ stats' = [stats EXCEPT !.total_found = @ + Len(all_vacancies')]
                  /\ v_i' = 1
                  /\ autoPc' = "apply"
             ELSE UNCHANGED <<stats, v_i, autoPc>>
    /\ UNCHANGED <<config, catalog, auto_args, keywords, limit, max_pages,
                   resume_id, kw_i, applied_ids, auto_ret, apply_log, skip_log>>

\* one iteration of the loop at lines 639-669
ProcessVacancy ==
    /\ autoPc = "apply"
    /\ v_i <= Len(all_vacancies)
    /\ LET vid == all_vacancies[v_i]
       IN IF AlreadyApplied(vid, applied_ids)
          THEN /\ stats' = [stats EXCEPT !.skipped = @ + 1]
               /\ skip_log' = Append(skip_log, vid)
               /\ UNCHANGED <<applied_ids, apply_log>>
          ELSE \E resp \in AutoApplyResponses, sresp \in AutoSendResponses :
               LET res == apply_to_vacancy("default", cover_letter_cfg, resp, sresp)
               IN /\ applied_ids' = AddApplied(applied_ids, vid)
                  /\ apply_log' = Append(apply_log,
                        [id |-> vid,
                         ok |-> /\ resp.kind = "response"
                                /\ resp.status \in {200, 201}
                                /\ resp.text # "invalid",
                         message |-> res.cover_letter_sent # "unset"])
                  /\ stats' = [stats EXCEPT
                        !.applied = IF res.success THEN @ + 1 ELSE @,
                        !.failed = IF res.success THEN @ ELSE @ + 1,
                        !.results = Append(@, Entry(vid, res))]
                  /\ UNCHANGED skip_log
    /\ v_i' = v_i + 1
    /\ UNCHANGED <<config, catalog, autoPc, auto_args, keywords, limit, max_pages,
                   resume_id, kw_i, page, all_vacancies, auto_ret, search_log>>

\* the loop at 639 is over: next keyword (line 615) or return (lines 671-672)
KeywordDone ==
    /\ autoPc = "apply"
    /\ v_i > Len(all_vacancies)
    /\ IF kw_i < Len(keywords)
       THEN /\ kw_i' = kw_i + 1
            /\ page' = 0
            /\ all_vacancies' = <<>>
            /\ v_i' = 0
            /\ autoPc' = "search"
            /\ UNCHANGED auto_ret
       ELSE /\ autoPc' = "done"
            /\ auto_ret' = "stats"
            /\ UNCHANGED <<kw_i, page, all_vacancies, v_i>>
    /\ UNCHANGED <<config, catalog, auto_args, keywords, limit, max_pages,
                   resume_id, applied_ids, stats, search_log, apply_log, skip_log>>

AutoStep ==
    \/ \E kw_arg \in {<<>>, <<"python", "devops">>}, limit_arg \in {0, 1},
          pages_arg \in {0, MaxPages}, resume_arg \in {"", "R1"} :
            AutoApply(kw_arg, limit_arg, pages_arg, resume_arg)
    \/ \E resp \in SearchResponses(catalog, limit) : SearchPage(resp)
    \/ ProcessVacancy
    \/ KeywordDone

\* SuperjobConfig read from a .env file with SEARCH_LIMIT=2 and MAX_PAGES=1,
\* and with SEARCH_KEYWORDS and RESUME_ID either both set or both left out
Configs ==
    {[search_keywords |-> <<>>, search_limit |-> 2, max_pages |-> 1, resume_id |-> ""],
     [search_keywords |-> <<"python", "devops">>, search_limit |-> 2,
      max_pages |-> 1, resume_id |-> "R1"]}

\* ------------------------------------------------------------ specifications
NoCache == [state |-> "absent", data |-> EmptyMap]
NoConfig ==
    /\ config = [search_keywords |-> <<>>, search_limit |-> 20, max_pages |-> 1,
                 resume_id |-> ""]
    /\ catalog = {}

InitAuth ==
    /\ cache \in CacheFiles
    /\ AuthIdle
    /\ calls = 0
    /\ ExtractIdle
    /\ cover_letter_cfg = ""
    /\ ApplyIdle
    /\ NoConfig
    /\ AutoIdle

NextAuth == AuthStep /\ UNCHANGED <<extractVars, applyVars, autoVars>>

SpecAuth == InitAuth /\ [][NextAuth]_vars

InitExtract ==
    /\ cache = NoCache
    /\ AuthIdle
    /\ calls = 0
    /\ response \in Responses
    /\ extracted = [done |-> FALSE, raised |-> FALSE, value |-> None]
    /\ cover_letter_cfg = ""
    /\ ApplyIdle
    /\ NoConfig
    /\ AutoIdle

NextExtract == ExtractChatId /\ UNCHANGED <<authVars, calls, applyVars, autoVars>>

SpecExtract == InitExtract /\ [][NextExtract]_vars

InitApply ==
    /\ cache = NoCache
    /\ AuthIdle
    /\ calls = 0
    /\ ExtractIdle
    /\ cover_letter_cfg \in ConfigLetters
    /\ ApplyIdle
    /\ NoConfig
    /\ AutoIdle

NextApply == ApplyStep /\ UNCHANGED <<authVars, extractVars, autoVars>>

SpecApply == InitApply /\ [][NextApply]_vars

InitAuto ==
    /\ cache = NoCache
    /\ AuthIdle
    /\ calls = 0
    /\ ExtractIdle
    /\ cover_letter_cfg = "Cfg"
    /\ ApplyIdle
    /\ config \in Configs
    /\ catalog = {"V1", "V2"}
    /\ AutoIdle

NextAuto == AutoStep /\ UNCHANGED <<authVars, calls, extractVars, applyVars>>

SpecAuto == InitAuto /\ [][NextAuto]_vars

\* the run of the process entry point (line 695) against a site with three
\* vacancies, configured SEARCH_KEYWORDS=python,devops SEARCH_LIMIT=2 MAX_PAGES=1
InitScenario ==
    /\ cache = NoCache
    /\ AuthIdle
    /\ calls = 0
    /\ ExtractIdle
    /\ cover_letter_cfg = "Cfg"
    /\ ApplyIdle
    /\ config = [search_keywords |-> <<"python", "devops">>, search_limit |-> 2,
                 max_pages |-> 1, resume_id |-> "R1"]
    /\ catalog = VacancyIds
    /\ AutoIdle

MainStep ==
    \/ AutoApply(<<>>, 0, 0, "")
    \/ \E resp \in SearchResponses(catalog, limit) : SearchPage(resp)
    \/ ProcessVacancy
    \/ KeywordDone

NextScenario == MainStep /\ UNCHANGED <<authVars, calls, extractVars, applyVars>>

SpecScenario == InitScenario /\ [][NextScenario]_vars

\* =================================================================== claims
\* the cookie names for which the running call was given a value
Supplied(c) == {k \in DOMAIN c : c[k] # None}
Probed == HasEvent(log, "probe")

\* C1 (as stated): when the cookie set given to auth_with_cookies or
\* auth_from_file lacks one of uat, sat, sask, the call raises and issues no
\* probe request.
C1_RejectsWithoutProbe ==
    (/\ authPc = "done"
     /\ call.op \in {"auth_with_cookies", "auth_from_file"}
     /\ ret # "FileNotFoundError"
     /\ ~(Required \subseteq Supplied(cookies)))
    => (ret \notin {"True", "False"} /\ ~Probed)

\* C2: in auth_from_browser without force_refresh the cache file is read first,
\* usable cached cookies (uat, sat, sask present) are probed before any adapter
\* is queried, and a successful cached probe means no adapter is queried; with
\* force_refresh the cache file is never read.
C2_CacheBeforeAdapters ==
    call.op = "auth_from_browser" =>
        /\ call.force => (~HasEvent(log, "cache_read") /\ cached.none)
        /\ (~call.force /\ authPc # "cache") =>
              /\ Len(log) >= 1 /\ log[1].ev = "cache_read"
              /\ \A i \in 2..Len(log) : log[i].ev # "cache_read"
        /\ (~call.force /\ authPc # "cache" /\ ~Falsy(cached)
                /\ Missing(cached.data) = {}) =>
              /\ Len(log) >= 2 /\ log[2].ev = "probe"
        /\ (~call.force /\ Len(log) >= 2 /\ log[2] = ProbeEvent(TRUE)) =>
              /\ ~HasEvent(log, "adapter")
              /\ authPc = "done" /\ ret = "True"

C2_Witness ==
    /\ authPc = "done" /\ call.op = "auth_from_browser" /\ ~call.force
    /\ Len(log) >= 3
    /\ log[1].ev = "cache_read" /\ log[2] = ProbeEvent(FALSE)
    /\ log[3].ev = "adapter"

\* C3: every step that changes the cache file is the adapter-loop step whose
\* cookies have just passed the probe, and the file then holds exactly that
\* adapter's cookie dict; no other step (cache path, failing adapters, explicit
\* cookies, cookie file) changes it.
C3_CacheWrittenOnlyAfterAdapterSuccess ==
    [][cache' # cache =>
          /\ authPc = "adapters" /\ authPc' = "done" /\ ret' = "True"
          /\ browsers_to_try # <<>>
          /\ log' = log \o <<Event("adapter", Head(browsers_to_try)),
                             ProbeEvent(TRUE),
                             Event("cache_write", Head(browsers_to_try))>>
          /\ cache' = [state |-> "ok", data |-> cookies']
          /\ Missing(cookies') = {}]_vars

C3_Witness ==
    /\ authPc = "done" /\ HasEvent(log, "cache_write")
    /\ ~cached.none /\ "geo" \in DOMAIN cached.data
    /\ cache = [state |-> "ok", data |-> cookies]
    /\ "geo" \notin DOMAIN cookies

\* ---------------------------------------------------------------- C4
IsChat(it) == it.obj /\ it.type = "chat"
ChatAt(r) == {i \in 1..Len(r.items) : IsChat(r.items[i])}
MatchAt(r) ==
    {i \in 1..Len(r.items) :
        /\ r.items[i].obj /\ r.items[i].type = "vacancyResponse"
        /\ r.vr \notin {"absent", "null"} /\ r.items[i].id = r.vr}
First(S) == CHOOSE i \in S : \A j \in S : i <= j
ChatRelId(it) == IF it.chat \in {"absent", "null"} THEN None ELSE it.chat
ObjectsUpTo(r, n) == \A i \in 1..n : r.items[i].obj

\* C4 (as stated): the id of the first chat element of included when there is
\* one; otherwise the chat relationship id of the vacancyResponse element that
\* the primary resource's vacancyResponse relationship names; otherwise no id;
\* and never an exception.
C4_AsStated ==
    extracted.done =>
        /\ ~extracted.raised
        /\ extracted.value =
              IF ChatAt(response) # {}
              THEN response.items[First(ChatAt(response))].id
              ELSE IF MatchAt(response) # {}
              THEN ChatRelId(response.items[First(MatchAt(response))])
              ELSE None

\* C4 (amended): _extract_chat_id never raises. When every element of included
\* up to its first chat element is a JSON object, the result is that chat's id.
\* When included holds only JSON objects, none of them a chat, and the primary
\* resource's vacancyResponse relationship id is readable and non-empty, the
\* result is the chat relationship id of the first vacancyResponse element with
\* that id (no id when that path is absent or malformed). In every other case
\* the result is no id.
C4_ExtractChatId ==
    extracted.done =>
        /\ ~extracted.raised
        /\ extracted.value =
              IF /\ ChatAt(response) # {}
                 /\ ObjectsUpTo(response, First(ChatAt(response)))
              THEN response.items[First(ChatAt(response))].id
              ELSE IF /\ ChatAt(response) = {}
                      /\ ObjectsUpTo(response, Len(response.items))
                      /\ Truthy(response.vr)
                      /\ MatchAt(response) # {}
              THEN ChatRelId(response.items[First(MatchAt(response))])
              ELSE None

C4_Witness ==
    /\ extracted.done /\ extracted.value = "C2"
    /\ ChatAt(response) = {} /\ Len(response.items) = 2
    /\ First(MatchAt(response)) = 2

\* ---------------------------------------------------------------- C8
\* the apply POST was answered 201 with a chat resource C1 in included, and the
\* call was given the cover letter text "Hi"
C8_Scenario ==
    /\ http.kind = "response" /\ http.status = 201 /\ http.text = "json"
    /\ http.body.dict /\ http.body.included = "list"
    /\ http.body.items = <<[obj |-> TRUE, type |-> "chat", id |-> "C1",
                            chat |-> "absent"]>>
    /\ cover_letter = "Hi"

\* C8: in that scenario the result has chat_id C1 and a chat_url containing C1,
\* exactly one message is sent, after the apply POST, to chat C1 with text Hi,
\* and cover_letter_sent is that send's success flag.
C8_ChatAndCoverLetter ==
    (C8_Scenario /\ applyPc \in {"send", "done"}) =>
        /\ result.chat_id = "C1"
        /\ \E i \in 1..Len(result.chat_url) : result.chat_url[i] = "C1"
        /\ applyPc = "send" => reqs = <<ApplyRequest>>
        /\ applyPc = "done" =>
              /\ reqs = <<ApplyRequest, MessageRequest("C1", "Hi")>>
              /\ result.cover_letter_sent =
                    IF /\ msg_http.kind = "response"
                       /\ msg_http.status \in {200, 201}
                       /\ msg_http.text # "invalid"
                    THEN "True" ELSE "False"

C8_Witness ==
    /\ C8_Scenario /\ applyPc = "done"
    /\ result.cover_letter_sent = "True"
    /\ reqs = <<ApplyRequest, MessageRequest("C1", "Hi")>>

\* ---------------------------------------------------------------- C9
\* C9 (as stated): every chat message apply_to_vacancy sends goes to an
\* obtained chat id and carries a non-empty text, the default text being the
\* configuration's cover letter at the time of the call.
C9_SendsOnlyNonEmptyLetter ==
    \A i \in 1..Len(reqs) :
        reqs[i].req = "message" =>
            /\ Truthy(reqs[i].chat_id)
            /\ reqs[i].chat_id = result.chat_id
            /\ Truthy(reqs[i].message)
            /\ cover_letter = "default" => reqs[i].message = cover_letter_cfg

\* ---------------------------------------------------------------- C5
\* occurrences of vacancy id v in the pages fetched for keyword number k
Occurrences(k, v) ==
    {<<i, j>> \in (1..Len(search_log)) \X (1..limit) :
        /\ search_log[i].kw = k
        /\ j <= Len(search_log[i].ids)
        /\ search_log[i].ids[j] = v}
ApplyCalls(v) == {i \in 1..Len(apply_log) : apply_log[i].id = v}
Skips(v) == {i \in 1..Len(skip_log) : skip_log[i] = v}

\* C5: `skipped` counts exactly the recorded skips, and when a run over two
\* keywords has ended, a vacancy id that is in the results of both keywords
\* (once in each) has had exactly one apply_to_vacancy call and exactly one
\* increment of `skipped`.
C5_SharedIdAppliedOnceSkippedOnce ==
    /\ stats.skipped = Len(skip_log)
    /\ (autoPc = "done" /\ auto_ret = "stats" /\ Len(keywords) = 2) =>
          \A v \in catalog :
              (Cardinality(Occurrences(1, v)) = 1 /\ Cardinality(Occurrences(2, v)) = 1)
              => (Cardinality(ApplyCalls(v)) = 1 /\ Cardinality(Skips(v)) = 1)

C5_Witness ==
    /\ autoPc = "done" /\ auto_ret = "stats" /\ Len(keywords) = 2
    /\ Cardinality(Occurrences(1, "V2")) = 1 /\ Cardinality(Occurrences(2, "V2")) = 1
    /\ Cardinality(ApplyCalls("V2")) = 1 /\ skip_log = <<"V2">>
    /\ stats.skipped = 1

\* ---------------------------------------------------------------- C6
SearchesFor(k) == {i \in 1..Len(search_log) : search_log[i].kw = k}

\* C6: no search request for a keyword follows a search request for the same
\* keyword whose page was empty or had offset+limit >= total, and no keyword
\* gets more than max_pages search requests.
C6_PaginationStops ==
    /\ \A i \in 1..Len(search_log) : \A j \in 1..Len(search_log) :
          (i < j /\ search_log[i].kw = search_log[j].kw) => ~search_log[i].stop
    /\ \A k \in 1..Len(keywords) : Cardinality(SearchesFor(k)) <= max_pages

C6_Witness ==
    /\ autoPc = "done" /\ auto_ret = "stats" /\ max_pages = 2
    /\ Cardinality(SearchesFor(1)) = 1
    /\ search_log[1].stop /\ search_log[1].ids # <<>>
    /\ Cardinality(SearchesFor(2)) = 2
    /\ search_log[3].ids = <<>>

\* ---------------------------------------------------------------- C7
\* keywords python, devops, max_pages 1, limit 2; the first search returned
\* V1, V2 and the second V2, V3, both with total 2 (the page reaches the
\* total); every apply POST was accepted
C7_Scenario ==
    /\ autoPc = "done"
    /\ keywords = <<"python", "devops">> /\ max_pages = 1 /\ limit = 2
    /\ search_log =
          <<[kw |-> 1, offset |-> 0, ids |-> <<"V1", "V2">>, stop |-> TRUE],
            [kw |-> 2, offset |-> 0, ids |-> <<"V2", "V3">>, stop |-> TRUE]>>
    /\ \A i \in 1..Len(apply_log) : apply_log[i].ok

\* C7: in that scenario auto_apply returns total_found 4, applied 3 (V1, V2 and
\* V3, in that order), skipped 1 and failed 0.
C7_EndToEnd ==
    C7_Scenario =>
        /\ auto_ret = "stats"
        /\ stats.total_found = 4 /\ stats.applied = 3
        /\ stats.skipped = 1 /\ stats.failed = 0
        /\ Len(stats.results) = 3
        /\ [i \in 1..3 |-> stats.results[i].vacancy_id] = <<"V1", "V2", "V3">>
        /\ \A i \in 1..3 : stats.results[i].success
        /\ skip_log = <<"V2">>

C7_Witness == C7_Scenario /\ stats.applied = 3

\* ---------------------------------------------------------------- C10
\* C10: when neither the argument nor the configuration gives keywords, or
\* neither gives a resume id, auto_apply returns an error result and has issued
\* no search request and made no apply_to_vacancy call (hence sent no message).
C10_MissingConfigNoRequests ==
    (/\ autoPc # "idle"
     /\ \/ (auto_args.keywords = <<>> /\ config.search_keywords = <<>>)
        \/ (auto_args.resume_id = "" /\ config.resume_id = ""))
    => /\ autoPc = "done" /\ auto_ret = "error"
       /\ search_log = <<>> /\ apply_log = <<>> /\ skip_log = <<>>
       /\ stats = EmptyStats

C10_Witness ==
    /\ autoPc = "done" /\ auto_ret = "error"
    /\ auto_args.keywords # <<>>
    /\ auto_args.resume_id = "" /\ config.resume_id = ""

\* ---------------------------------------------------------------- C11
\* the apply POST came back with HTTP status 200 or 201
Posted2xx == http.kind = "response" /\ http.status \in {200, 201}

\* C11 (as stated): once the apply POST has been answered, the success flag of
\* apply_to_vacancy's result is true if and only if the POST returned status
\* 200 or 201, whatever the body (empty, JSON, not parseable) and whatever the
\* cover-letter send does.
C11_SuccessIffStatus2xx ==
    applyPc \in {"send", "done"} => (result.success <=> Posted2xx)

\* ---------------------------------------------------------------- C12
IsAdapter(e) == e.ev = "adapter"
\* the adapters the running call has queried, in order
Tried == SelectSeq(log, IsAdapter)
AdapterAt == {i \in 1..Len(log) : IsAdapter(log[i])}
\* the adapter queried at position i of the log passed the probe
Passed(i) == i < Len(log) /\ log[i + 1] = ProbeEvent(TRUE)
ProbeOk == \E i \in 1..Len(log) : log[i] = ProbeEvent(TRUE)

\* C12: in auth_from_browser with browser "auto" the adapters are queried in
\* the order firefox, chrome, edge, safari; an adapter is queried only after
\* every earlier one failed; none is queried after the first one whose cookies
\* pass the probe, and the call then returns True; the call returns False
\* exactly when no probe (cached cookies or adapter) succeeded and all four
\* adapters were queried, and it then reports the error recorded for safari,
\* the last adapter queried.
C12_AutoOrderAndLastError ==
    (call.op = "auth_from_browser" /\ call.browser = "auto") =>
        /\ Len(Tried) <= 4
        /\ \A i \in 1..Len(Tried) :
              Tried[i].arg = <<"firefox", "chrome", "edge", "safari">>[i]
        /\ \A i \in AdapterAt : \A j \in AdapterAt : i < j => ~Passed(i)
        /\ \A i \in AdapterAt :
              Passed(i) => (authPc = "done" /\ ret = "True")
        /\ authPc = "done" =>
              (ret = "False" <=> (Len(Tried) = 4 /\ ~ProbeOk))
        /\ (authPc = "done" /\ ret = "False") =>
              /\ log[Len(log)] = Event("report", "safari")
              /\ last_error.br = "safari"
              /\ last_error.kind \in {"raised", "missing", "invalid"}
              /\ last_error.kind = "invalid" <=> log[Len(log) - 1] = ProbeEvent(FALSE)

C12_Witness ==
    /\ authPc = "done" /\ call.op = "auth_from_browser" /\ call.browser = "auto"
    /\ ~call.force /\ ret = "False"
    /\ Len(log) = 8
    /\ log[2] = ProbeEvent(FALSE)
    /\ log[3] = Event("adapter", "firefox")
    /\ log[4] = ProbeEvent(FALSE)
    /\ log[8] = Event("report", "safari")
    /\ last_error = ErrorOf("safari", "missing")

\* ---------------------------------------------------------------- C13
\* the vacancy ids the search requests of the run have returned
Fetched ==
    {search_log[i].ids[j] : <<i, j>> \in
        {p \in (1..Len(search_log)) \X (1..limit) : p[2] <= Len(search_log[p[1]].ids)}}
\* how often id v was returned, over all pages and keywords of the run
Fetches(v) == UNION {Occurrences(k, v) : k \in 1..Len(keywords)}
FailedCalls(v) == {i \in ApplyCalls(v) : ~apply_log[i].ok}

\* C13: within one auto_apply run no vacancy id gets a second apply call, so a
\* failed application (non-2xx answer or transport error) is never retried:
\* when the run has ended, every reappearance of an id whose application
\* failed was counted as skipped. A failure does not stop the run: while a
\* keyword is processed every vacancy before the current one has had its apply
\* call, and when the run has ended every distinct id fetched has had exactly
\* one apply call, whatever the outcomes of the earlier calls.
C13_NoRetryNoAbort ==
    /\ \A v \in catalog : Cardinality(ApplyCalls(v)) <= 1
    /\ autoPc = "apply" =>
          \A i \in 1..(v_i - 1) : Cardinality(ApplyCalls(all_vacancies[i])) = 1
    /\ (autoPc = "done" /\ auto_ret = "stats") =>
          /\ \A v \in Fetched : Cardinality(ApplyCalls(v)) = 1
          /\ \A v \in catalog \ Fetched : ApplyCalls(v) = {}
          /\ Len(apply_log) = Cardinality(Fetched)
          /\ \A v \in catalog :
                FailedCalls(v) # {} =>
                    Cardinality(Skips(v)) = Cardinality(Fetches(v)) - 1

C13_Witness ==
    /\ autoPc = "done" /\ auto_ret = "stats"
    /\ Len(apply_log) = 2
    /\ apply_log[1] = [id |-> "V1", ok |-> FALSE, message |-> FALSE]
    /\ apply_log[2].id = "V2" /\ apply_log[2].ok
    /\ Cardinality(Fetches("V1")) = 3
    /\ Cardinality(Occurrences(2, "V1")) >= 1
    /\ Cardinality(Skips("V1")) = 2
    /\ stats.failed = 1 /\ stats.applied = 1

\* ---------------------------------------------------------------- C14
Successes == {i \in 1..Len(stats.results) : stats.results[i].success}
Failures == {i \in 1..Len(stats.results) : ~stats.results[i].success}
ResultIds == {stats.results[i].vacancy_id : i \in 1..Len(stats.results)}
\* vacancies of the current keyword that the loop at line 639 has not reached
Unprocessed == IF autoPc = "apply" THEN Len(all_vacancies) - (v_i - 1) ELSE 0

\* C14: at every point of an auto_apply run and in the returned statistics,
\* applied + failed equals the number of result records and the number of
\* distinct vacancy ids applied to; the records flagged as successes are as
\* many as `applied` and the others as many as `failed`, one record per apply
\* call and in the order of the calls; applied + failed + skipped equals
\* total_found less the vacancies of the current keyword not yet processed,
\* hence equals total_found once a keyword's vacancies are all processed.
C14_CountersAgree ==
    /\ stats.applied + stats.failed = Len(stats.results)
    /\ stats.applied + stats.failed = Cardinality(applied_ids)
    /\ ResultIds = applied_ids
    /\ Cardinality(Successes) = stats.applied
    /\ Cardinality(Failures) = stats.failed
    /\ Len(stats.results) = Len(apply_log)
    /\ \A i \in 1..Len(stats.results) :
          /\ stats.results[i].vacancy_id = apply_log[i].id
          /\ stats.results[i].success = apply_log[i].ok
    /\ stats.applied + stats.failed + stats.skipped =
          stats.total_found - Unprocessed
    /\ (autoPc = "done" /\ auto_ret = "stats") =>
          stats.applied + stats.failed + stats.skipped = stats.total_found

C14_Witness ==
    /\ autoPc = "done" /\ auto_ret = "stats"
    /\ stats.applied = 1 /\ stats.failed = 1 /\ stats.skipped = 2
    /\ stats.total_found = 4
    /\ Len(stats.results) = 2 /\ Cardinality(applied_ids) = 2
    /\ ~stats.results[1].success /\ stats.results[2].success

====
